---- MODULE Spec2Model ----
(***************************************************************************)
(* Email/password authentication of the TanStack Start example:            *)
(* the server functions loginFn, signupFn, fetchSessionUser and            *)
(* getCurrentUser, the '_authed' route guard, the '/_authed/home' loader   *)
(* and the seed script, over a User Store (Prisma) and one cookie session  *)
(* per browser client.                                                     *)
(*                                                                         *)
(* The repository holds two generations of routes/_authed.tsx: the one     *)
(* with a schema validator in front of the handler (loginFn, signupFn) and *)
(* the older one that parses inside the handler and throws a redirect on   *)
(* success.  Both are modelled.                                            *)
(*                                                                         *)
(* Spec runs every request as one step.  SpecConc runs signupFn and the    *)
(* navigation to /home in the steps their awaits cut them into, so that    *)
(* requests of different clients interleave.                               *)
(***************************************************************************)
EXTENDS Integers, Sequences, FiniteSets, TLC

VARIABLES
    users,      \* User Store: email -> row, for the emails that have a row
    nextId,     \* the next id the User Store hands out
    session,    \* Session Store: client -> session.data
    seedPc,     \* position of the seed script's main()
    variant,    \* which generation of routes/_authed.tsx is deployed
    signedUp,   \* history: email -> plaintext of the signup that made the row
    pending,    \* client -> its request that is suspended at an await, or Null
    last        \* the last request handled and its response

vars == <<users, nextId, session, seedPc, variant, signedUp, pending, last>>

----------------------------------------------------------------------------
(* Bounds and input sets *)

MaxId == 2

Clients == {"c1", "c2"}

AdminEmail ==
    <<"a","d","m","i","n","@","e","x","a","m","p","l","e",".","c","o","m">>
UserEmail == <<"b","@","c",".","i","o">>
BadEmail == <<"b","@","c">>
Emails == {AdminEmail, UserEmail, BadEmail}

AdminPassword == "adminpassword"
Passwords == {"abcde", "abcdef", AdminPassword}

LoginInputs == [email : Emails, password : Passwords]

SignupInput(email, password, first_name, last_name, redirectUrl) ==
    [email |-> email, password |-> password, first_name |-> first_name,
     last_name |-> last_name, redirectUrl |-> redirectUrl]

\* The seed's own credentials, a second user with a password of exactly the
\* minimum length, and one input per way of failing the schema.
SignupInputs ==
    {SignupInput(AdminEmail, AdminPassword, "Admin", "User", "/home"),
     SignupInput(UserEmail, "abcdef", "Bob", "Ray", ""),
     SignupInput(UserEmail, "abcde", "Bob", "Ray", ""),
     SignupInput(BadEmail, "abcdef", "Bob", "Ray", ""),
     SignupInput(UserEmail, "abcdef", "", "Ray", ""),
     SignupInput(UserEmail, "abcdef", "Bob", "", ""),
     SignupInput(AdminEmail, "abcde", "", "", "")}

----------------------------------------------------------------------------
(* Values *)

\* An object with no properties: the data of a session that was never
\* written or was cleared.
EmptyObject == [k \in {} |-> k]

Has(obj, key) == key \in DOMAIN obj

\* JavaScript truthiness of obj.key for a string-valued property.
Truthy(obj, key) == Has(obj, key) /\ obj[key] # ""

MinPasswordLength == 6
MinNameLength == 1
DefaultRole == "user"

----------------------------------------------------------------------------
(* z.string().email(): one '@', a local part that neither starts nor ends  *)
(* with a dot and has no '..', and a domain of dot-separated non-empty     *)
(* labels ending in a top-level label of at least two characters.          *)

Positions(s, ch) == {i \in 1..Len(s) : s[i] = ch}

NoDoubleDot(s) == \A i \in 1..(Len(s) - 1) : ~(s[i] = "." /\ s[i + 1] = ".")

IsDomain(d) ==
    /\ Positions(d, ".") # {}
    /\ d[1] # "."
    /\ NoDoubleDot(d)
    /\ \A i \in Positions(d, ".") :
         (\A j \in Positions(d, ".") : j <= i) => Len(d) - i >= 2

IsEmail(e) ==
    /\ Cardinality(Positions(e, "@")) = 1
    /\ LET at == CHOOSE i \in Positions(e, "@") : TRUE
           local == SubSeq(e, 1, at - 1)
           domain == SubSeq(e, at + 1, Len(e))
       IN  /\ Len(local) >= 1
           /\ local[1] # "."
           /\ local[Len(local)] # "."
           /\ NoDoubleDot(local)
           /\ Len(domain) >= 1
           /\ IsDomain(domain)

----------------------------------------------------------------------------
(* Responses of a server function or of a navigation *)

Null == [null |-> TRUE]

Return(value) == [kind |-> "return", value |-> value]

Throw(message) == [kind |-> "throw", message |-> message]

ThrowIssues(issues) == [kind |-> "throw", message |-> "ZodError", issues |-> issues]

Redirect(to) == [kind |-> "redirect", to |-> to, statusCode |-> 301]

----------------------------------------------------------------------------
(* Password Hasher *)

\* The plaintext stored as it is.
hashPasswordPlain(password) == password

\* pbkdf2(password, 'salt', 100000, 64, 'sha256') rendered as hex: a fixed
\* salt, iteration count and digest, so the result is a function of the
\* plaintext alone; distinct plaintexts give distinct digests and no digest
\* is a plaintext.
hashPassword(password) == "pbkdf2-sha256$salt$100000$64$" \o password

----------------------------------------------------------------------------
(* Input schemas: the set of fields that fail, empty when the input parses *)

signinSchema(data) ==
    {f \in {"email"} : ~IsEmail(data.email)}
        \cup {f \in {"password"} : Len(data.password) < MinPasswordLength}

signupSchema(data) ==
    {f \in {"email"} : ~IsEmail(data.email)}
        \cup {f \in {"password"} : Len(data.password) < MinPasswordLength}
        \cup {f \in {"first_name"} : Len(data.first_name) < MinNameLength}
        \cup {f \in {"last_name"} : Len(data.last_name) < MinNameLength}

----------------------------------------------------------------------------
(* User Store (Prisma client on the User table) *)

Select(row, fields) == [f \in fields |-> row[f]]

AllFields == {"id", "email", "password", "role", "first_name", "last_name"}

\* The where clause ignored: any row answers the lookup.
findUniqueAny(U, email, fields) ==
    IF DOMAIN U # {}
    THEN Select(U[CHOOSE e \in DOMAIN U : TRUE], fields)
    ELSE Null

\* A lookup that matches nothing.
findUniqueNone(U, email, fields) == Null

findUnique(U, email, fields) ==
    IF email \in DOMAIN U THEN Select(U[email], fields) ELSE Null

\* The column default left out.
NewUserNoDefault(id, data) ==
    [id |-> id,
     email |-> data.email,
     password |-> data.password,
     role |-> IF Has(data, "role") THEN data.role ELSE "",
     first_name |-> data.first_name,
     last_name |-> data.last_name]

\* The row user.create() inserts: the store assigns the id and, as the data
\* carries no role, the column default.
NewUser(id, data) ==
    [id |-> id,
     email |-> data.email,
     password |-> data.password,
     role |-> IF Has(data, "role") THEN data.role ELSE DefaultRole,
     first_name |-> data.first_name,
     last_name |-> data.last_name]

Insert(U, row) == [e \in DOMAIN U \cup {row.email} |-> IF e = row.email THEN row ELSE U[e]]

----------------------------------------------------------------------------
(* Session Store *)

\* The merge the wrong way round: what the session holds already wins.
SessionUpdateKeepsOld(data, fields) ==
    [k \in DOMAIN data \cup DOMAIN fields |->
        IF k \in DOMAIN data THEN data[k] ELSE fields[k]]

\* session.update(fields): the fields given overwrite, the others stay.
SessionUpdate(data, fields) ==
    [k \in DOMAIN data \cup DOMAIN fields |->
        IF k \in DOMAIN fields THEN fields[k] ELSE data[k]]

SessionClear(data) == EmptyObject

----------------------------------------------------------------------------
(* Server function handlers.  Each takes the User Store U, the next id, the *)
(* caller's session data and the input, and yields the stores after the    *)
(* call, the response and the number of User Store reads it made.  hashOk  *)
(* is whether the digest computation of this call succeeds.                *)

Outcome(U, id, data, result, queries) ==
    [users |-> U, nextId |-> id, data |-> data, result |-> result, queries |-> queries]

\* The rejection caught and turned into a login failure.
HashFailureSwallowed == Return([error |-> TRUE, message |-> "Incorrect password"])

HashFailure == Throw("pbkdf2 failed")

\* The handler behind the validator: never entered with input that fails
\* signinSchema.
loginHandler(U, id, data, input, hashOk) ==
    LET found == findUnique(U, input.email, {"id", "email", "password", "role"})
    IN  IF found = Null
        THEN Outcome(U, id, data,
                     Return([error |-> TRUE, userNotFound |-> TRUE,
                             message |-> "User not found"]), 1)
        ELSE IF ~hashOk
        THEN Outcome(U, id, data, HashFailure, 1)
        ELSE IF found.password # hashPassword(input.password)
        THEN Outcome(U, id, data,
                     Return([error |-> TRUE, message |-> "Incorrect password",
                             userNotFound |-> TRUE]), 1)
        ELSE Outcome(U, id,
                     SessionUpdate(data, [email |-> found.email,
                                          role |-> found.role,
                                          id |-> found.id]),
                     Return([error |-> FALSE, userNotFound |-> FALSE,
                             message |-> "Logged in"]), 1)

\* createServerFn().validator(signinSchema).handler(...): the schema's parse
\* throws on input that does not fit, before the handler runs.
loginServerFn(U, id, data, input, hashOk) ==
    IF signinSchema(input) # {}
    THEN Outcome(U, id, data, ThrowIssues(signinSchema(input)), 0)
    ELSE loginHandler(U, id, data, input, hashOk)

\* The older loginFn: no schema, and success is a thrown redirect to /home.
loginServerFnLegacy(U, id, data, input, hashOk) ==
    LET found == findUnique(U, input.email, {"id", "email", "password", "role"})
    IN  IF found = Null
        THEN Outcome(U, id, data,
                     Return([error |-> TRUE, userNotFound |-> TRUE,
                             message |-> "User not found"]), 1)
        ELSE IF ~hashOk
        THEN Outcome(U, id, data, HashFailure, 1)
        ELSE IF found.password # hashPassword(input.password)
        THEN Outcome(U, id, data,
                     Return([error |-> TRUE, message |-> "Incorrect password"]), 1)
        ELSE Outcome(U, id,
                     SessionUpdate(data, [email |-> found.email,
                                          role |-> found.role,
                                          id |-> found.id]),
                     Redirect("/home"), 1)

\* user.role || 'user'
RoleOrDefault(user) == IF user.role # "" THEN user.role ELSE "user"

signupHandler(U, id, data, input, hashOk) ==
    LET found == findUnique(U, input.email, AllFields)
        user == NewUser(id, [email |-> input.email,
                             password |-> hashPassword(input.password),
                             first_name |-> input.first_name,
                             last_name |-> input.last_name])
    IN  IF found # Null
        THEN Outcome(U, id, data,
                     Return([error |-> TRUE, userExists |-> TRUE,
                             message |-> "User already exists"]), 1)
        ELSE IF ~hashOk
        THEN Outcome(U, id, data, HashFailure, 1)
        ELSE Outcome(Insert(U, user), id + 1,
                     SessionUpdate(data, [email |-> input.email,
                                          role |-> RoleOrDefault(user),
                                          id |-> user.id]),
                     Return([error |-> FALSE, message |-> "user created",
                             issues |-> Null]), 1)

signupServerFn(U, id, data, input, hashOk) ==
    IF signupSchema(input) # {}
    THEN Outcome(U, id, data, ThrowIssues(signupSchema(input)), 0)
    ELSE signupHandler(U, id, data, input, hashOk)

\* payload.redirectUrl || '/'
RedirectTarget(input) ==
    IF Truthy(input, "redirectUrl") THEN input.redirectUrl ELSE "/"

\* The older signupFn: the lookup comes first, the schema is parsed inside
\* the handler with safeParse, and success is a thrown redirect.
signupServerFnLegacy(U, id, data, input, hashOk) ==
    LET found == findUnique(U, input.email, AllFields)
        user == NewUser(id, [email |-> input.email,
                             password |-> hashPassword(input.password),
                             first_name |-> input.first_name,
                             last_name |-> input.last_name])
    IN  IF found # Null
        THEN Outcome(U, id, data,
                     Return([error |-> TRUE, userExists |-> TRUE,
                             message |-> "User already exists"]), 1)
        ELSE IF signupSchema(input) # {}
        THEN Outcome(U, id, data,
                     Return([error |-> TRUE, message |-> "Invalid input",
                             issues |-> signupSchema(input)]), 1)
        ELSE IF ~hashOk
        THEN Outcome(U, id, data, HashFailure, 1)
        ELSE Outcome(Insert(U, user), id + 1,
                     SessionUpdate(data, [email |-> input.email,
                                          role |-> RoleOrDefault(user),
                                          id |-> user.id]),
                     Redirect(RedirectTarget(input)), 1)

\* user.create() for an email that has a row: the primary key / unique index
\* on "email" rejects the insert and the client call throws.
UniqueConstraintFailed == Throw("Unique constraint failed on the fields: (email)")

\* signupFn up to the end of its lookup: the response when the call ends
\* there, Null when the handler goes on to hash and create.
signupLookup(U, id, data, input) ==
    IF signupSchema(input) # {}
    THEN Outcome(U, id, data, ThrowIssues(signupSchema(input)), 0)
    ELSE IF findUnique(U, input.email, AllFields) # Null
    THEN Outcome(U, id, data,
                 Return([error |-> TRUE, userExists |-> TRUE,
                         message |-> "User already exists"]), 1)
    ELSE Null

signupLookupLegacy(U, id, data, input) ==
    IF findUnique(U, input.email, AllFields) # Null
    THEN Outcome(U, id, data,
                 Return([error |-> TRUE, userExists |-> TRUE,
                         message |-> "User already exists"]), 1)
    ELSE IF signupSchema(input) # {}
    THEN Outcome(U, id, data,
                 Return([error |-> TRUE, message |-> "Invalid input",
                         issues |-> signupSchema(input)]), 1)
    ELSE Null

\* signupFn from hashPassword on, against the stores as they are by then:
\* the digest, user.create(), session.update() and the response `done`.
signupCreate(U, id, data, input, hashOk, done) ==
    LET user == NewUser(id, [email |-> input.email,
                             password |-> hashPassword(input.password),
                             first_name |-> input.first_name,
                             last_name |-> input.last_name])
    IN  IF ~hashOk
        THEN Outcome(U, id, data, HashFailure, 1)
        ELSE IF input.email \in DOMAIN U
        THEN Outcome(U, id, data, UniqueConstraintFailed, 2)
        ELSE Outcome(Insert(U, user), id + 1,
                     SessionUpdate(data, [email |-> input.email,
                                          role |-> RoleOrDefault(user),
                                          id |-> user.id]),
                     done, 2)

NotAuthenticated == Throw("Not authenticated")

\* The probe made strict: it throws where it should return null.
fetchSessionUserStrict(U, id, data) ==
    IF ~Truthy(data, "email")
    THEN Outcome(U, id, data, NotAuthenticated, 0)
    ELSE Outcome(U, id, data, Return(data), 0)

fetchSessionUserHandler(U, id, data) ==
    IF ~Truthy(data, "email")
    THEN Outcome(U, id, data, Return(Null), 0)
    ELSE Outcome(U, id, data, Return(data), 0)

\* The select left out: the whole row, digest included, is returned.
getCurrentUserUnselected(U, id, data) ==
    IF ~Truthy(data, "email")
    THEN Outcome(U, id, data, NotAuthenticated, 0)
    ELSE Outcome(U, id, data, Return(findUnique(U, data.email, AllFields)), 1)

\* The session refreshed from the row that was read.
getCurrentUserRefreshing(U, id, data) ==
    IF ~Truthy(data, "email")
    THEN Outcome(U, id, data, NotAuthenticated, 0)
    ELSE LET user == findUnique(U, data.email,
                                {"id", "email", "role", "first_name", "last_name"})
         IN  Outcome(U, id,
                     IF user = Null THEN EmptyObject
                     ELSE SessionUpdate(data, [role |-> user.role, id |-> user.id]),
                     Return(user), 1)

getCurrentUserHandler(U, id, data) ==
    IF ~Truthy(data, "email")
    THEN Outcome(U, id, data, NotAuthenticated, 0)
    ELSE Outcome(U, id, data,
                 Return(findUnique(U, data.email,
                                   {"id", "email", "role", "first_name", "last_name"})),
                 1)

----------------------------------------------------------------------------
(* Routes: the root route, the '_authed' layout route and '/_authed/home' *)

\* Root beforeLoad: the route context is {user: await fetchSessionUser()}.
rootBeforeLoad(U, id, data) ==
    [user |-> fetchSessionUserHandler(U, id, data).result.value]

\* The guard left out.
authedBeforeLoadNoGuard(context) == Return(Null)

\* '_authed' beforeLoad: hands the router a redirect to '/' when the context
\* has no user, and nothing otherwise.
authedBeforeLoad(context) ==
    IF context.user = Null THEN Redirect("/") ELSE Return(Null)

\* '/_authed/home' loader.
homeLoader(U, id, data) ==
    LET r == getCurrentUserHandler(U, id, data)
    IN  IF r.result.kind = "throw"
        THEN r
        ELSE IF r.result.value = Null
        THEN Outcome(U, id, data, Return([status |-> 401, redirect |-> "/"]), r.queries)
        ELSE Outcome(U, id, data, Return([userData |-> r.result.value]), r.queries)

View(component, context, loaderData) ==
    [kind |-> "view", component |-> component, context |-> context,
     loaderData |-> loaderData]

\* '_authed' errorComponent: the login form for 'Not authenticated', any
\* other error is thrown on to the root route's error boundary.
authedErrorComponent(error, context) ==
    IF error.message = "Not authenticated"
    THEN View("Login", context, Null)
    ELSE View("DefaultCatchBoundary", context, Null)

\* One navigation to /home: root beforeLoad, '_authed' beforeLoad, then, unless
\* the router was handed a redirect, the loader and the component.
NavigateHome(U, id, data) ==
    LET context == rootBeforeLoad(U, id, data)
        guard == authedBeforeLoad(context)
        loaded == homeLoader(U, id, data)
    IN  IF guard.kind = "redirect"
        THEN [result |-> guard, queries |-> 0,
              ran |-> {"root.beforeLoad", "_authed.beforeLoad"}]
        ELSE IF loaded.result.kind = "throw"
        THEN [result |-> authedErrorComponent(loaded.result, context),
              queries |-> loaded.queries,
              ran |-> {"root.beforeLoad", "_authed.beforeLoad", "home.loader",
                       "_authed.errorComponent"}]
        ELSE [result |-> View("AuthHomePage", context, loaded.result.value),
              queries |-> loaded.queries,
              ran |-> {"root.beforeLoad", "_authed.beforeLoad", "home.loader",
                       "AuthHomePage"}]

\* The User Store did not answer the loader's query.
StoreUnavailable == Throw("Can't reach database server")

\* The loader when the store may be down: getCurrentUser reads the session
\* first, so a missing session is reported before the store is asked.
homeLoaderOn(U, id, data, storeOk) ==
    IF ~storeOk /\ Truthy(data, "email")
    THEN Outcome(U, id, data, StoreUnavailable, 1)
    ELSE homeLoader(U, id, data)

\* The navigation up to the end of the two beforeLoads.
NavigateGuards(U, id, data) ==
    LET context == rootBeforeLoad(U, id, data)
    IN  [context |-> context, guard |-> authedBeforeLoad(context)]

\* The navigation from the loader on, with the context made before it.
NavigateLoad(U, id, data, context, storeOk) ==
    LET loaded == homeLoaderOn(U, id, data, storeOk)
    IN  IF loaded.result.kind = "throw"
        THEN [result |-> authedErrorComponent(loaded.result, context),
              queries |-> loaded.queries,
              ran |-> {"root.beforeLoad", "_authed.beforeLoad", "home.loader",
                       "_authed.errorComponent"}]
        ELSE [result |-> View("AuthHomePage", context, loaded.result.value),
              queries |-> loaded.queries,
              ran |-> {"root.beforeLoad", "_authed.beforeLoad", "home.loader",
                       "AuthHomePage"}]

----------------------------------------------------------------------------
(* Seed script *)

\* prisma.user.upsert for admin@example.com.
SeedUpsertRow(U, id) ==
    IF AdminEmail \in DOMAIN U
    THEN [U[AdminEmail] EXCEPT !.password = hashPassword(AdminPassword),
                               !.role = "admin"]
    ELSE NewUser(id, [email |-> AdminEmail,
                      password |-> hashPassword(AdminPassword),
                      first_name |-> "Admin",
                      last_name |-> "User",
                      role |-> "admin"])

----------------------------------------------------------------------------
(* Initial state: an empty User table, no client holds a session, either   *)
(* generation of the routes deployed                                       *)

Variants == {"validator", "legacy"}

\* A request, the stores it found and its response.
Request(op, c, input, result, queries, ran) ==
    [op |-> op, client |-> c, input |-> input, before |-> session[c],
     usersBefore |-> users, result |-> result, queries |-> queries, ran |-> ran]

Without(f, key) == [k \in DOMAIN f \ {key} |-> f[k]]

Init ==
    /\ users = EmptyObject
    /\ nextId = 1
    /\ session = [c \in Clients |-> EmptyObject]
    /\ seedPc = "idle"
    /\ variant \in Variants
    /\ signedUp = EmptyObject
    /\ pending = [c \in Clients |-> Null]
    /\ last = [op |-> "init", client |-> "c1", input |-> EmptyObject,
               before |-> EmptyObject, usersBefore |-> EmptyObject,
               result |-> Return(Null), queries |-> 0, ran |-> {}]

----------------------------------------------------------------------------
(* Actions *)

\* The stores after a server function call by client c, and its response.
Stores(op, c, input, o) ==
    /\ o.nextId <= MaxId + 1
    /\ users' = o.users
    /\ nextId' = o.nextId
    /\ session' = [session EXCEPT ![c] = o.data]
    /\ signedUp' = IF o.users # users
                   THEN Insert(signedUp, [email |-> input.email,
                                          password |-> input.password])
                   ELSE signedUp
    /\ last' = Request(op, c, input, o.result, o.queries, {})
    /\ UNCHANGED <<seedPc, variant>>

\* A call that runs from its first line to its response in one step.
Respond(op, c, input, o) ==
    /\ Stores(op, c, input, o)
    /\ UNCHANGED pending

loginFn(c, input, hashOk) ==
    /\ variant = "validator"
    /\ Respond("loginFn", c, input,
               loginServerFn(users, nextId, session[c], input, hashOk))

loginFnLegacy(c, input, hashOk) ==
    /\ variant = "legacy"
    /\ Respond("loginFn", c, input,
               loginServerFnLegacy(users, nextId, session[c], input, hashOk))

signupFn(c, input, hashOk) ==
    /\ variant = "validator"
    /\ Respond("signupFn", c, input,
               signupServerFn(users, nextId, session[c], input, hashOk))

signupFnLegacy(c, input, hashOk) ==
    /\ variant = "legacy"
    /\ Respond("signupFn", c, input,
               signupServerFnLegacy(users, nextId, session[c], input, hashOk))

fetchSessionUser(c) ==
    /\ Respond("fetchSessionUser", c, EmptyObject,
               fetchSessionUserHandler(users, nextId, session[c]))

getCurrentUser(c) ==
    /\ Respond("getCurrentUser", c, EmptyObject,
               getCurrentUserHandler(users, nextId, session[c]))

Navigate(c) ==
    LET n == NavigateHome(users, nextId, session[c])
    IN  /\ last' = Request("navigate", c, EmptyObject, n.result, n.queries, n.ran)
        /\ UNCHANGED <<users, nextId, session, seedPc, variant, signedUp, pending>>

\* The /logout route clears the client's session.
Logout(c) ==
    /\ session' = [session EXCEPT ![c] = SessionClear(session[c])]
    /\ last' = Request("logout", c, EmptyObject, Redirect("/"), 0, {})
    /\ UNCHANGED <<users, nextId, seedPc, variant, signedUp, pending>>

\* main() up to and including deleteMany(): the digest is computed first, and
\* a failure there ends the script before anything is deleted.
SeedDeleteMany(hashOk) ==
    /\ seedPc = "idle"
    /\ IF hashOk
       THEN /\ users' = EmptyObject
            /\ signedUp' = EmptyObject
            /\ seedPc' = "upsert"
            /\ last' = Request("seed.deleteMany", "c1", EmptyObject, Return(Null), 0, {})
       ELSE /\ last' = Request("seed.deleteMany", "c1", EmptyObject, HashFailure, 0, {})
            /\ UNCHANGED <<users, signedUp, seedPc>>
    /\ UNCHANGED <<nextId, session, variant, pending>>

\* main() from the upsert on.
SeedUpsert ==
    /\ seedPc = "upsert"
    /\ AdminEmail \in DOMAIN users \/ nextId <= MaxId
    /\ users' = Insert(users, SeedUpsertRow(users, nextId))
    /\ nextId' = IF AdminEmail \in DOMAIN users THEN nextId ELSE nextId + 1
    /\ signedUp' = Without(signedUp, AdminEmail)
    /\ seedPc' = "idle"
    /\ last' = Request("seed.upsert", "c1", EmptyObject, Return(Null), 1, {})
    /\ UNCHANGED <<session, variant, pending>>

Next ==
    \/ \E c \in Clients, i \in LoginInputs, h \in BOOLEAN : loginFn(c, i, h)
    \/ \E c \in Clients, i \in LoginInputs, h \in BOOLEAN : loginFnLegacy(c, i, h)
    \/ \E c \in Clients, i \in SignupInputs, h \in BOOLEAN : signupFn(c, i, h)
    \/ \E c \in Clients, i \in SignupInputs, h \in BOOLEAN : signupFnLegacy(c, i, h)
    \/ \E c \in Clients : fetchSessionUser(c)
    \/ \E c \in Clients : getCurrentUser(c)
    \/ \E c \in Clients : Navigate(c)
    \/ \E c \in Clients : Logout(c)
    \/ \E h \in BOOLEAN : SeedDeleteMany(h)
    \/ SeedUpsert

Spec == Init /\ [][Next]_vars

----------------------------------------------------------------------------
(* The same requests in the steps their awaits cut them into *)

Idle(c) == pending[c] = Null

\* signupFn by client c, up to the end of the lookup.
SignupLookup(c, input) ==
    LET o == IF variant = "validator"
             THEN signupLookup(users, nextId, session[c], input)
             ELSE signupLookupLegacy(users, nextId, session[c], input)
    IN  /\ Idle(c)
        /\ IF o # Null
           THEN Respond("signupFn", c, input, o)
           ELSE /\ pending' = [pending EXCEPT ![c] = [op |-> "signupFn", input |-> input]]
                /\ UNCHANGED <<users, nextId, session, seedPc, variant, signedUp, last>>

\* The rest of that call: hashPassword, user.create(), session.update().
SignupCreate(c, hashOk) ==
    /\ ~Idle(c)
    /\ pending[c].op = "signupFn"
    /\ Stores("signupFn", c, pending[c].input,
              signupCreate(users, nextId, session[c], pending[c].input, hashOk,
                           IF variant = "validator"
                           THEN Return([error |-> FALSE, message |-> "user created",
                                        issues |-> Null])
                           ELSE Redirect(RedirectTarget(pending[c].input))))
    /\ pending' = [pending EXCEPT ![c] = Null]

\* A navigation to /home by client c, up to the end of the beforeLoads.
NavigateBegin(c) ==
    LET g == NavigateGuards(users, nextId, session[c])
    IN  /\ Idle(c)
        /\ IF g.guard.kind = "redirect"
           THEN /\ last' = Request("navigate", c, EmptyObject, g.guard, 0,
                                   {"root.beforeLoad", "_authed.beforeLoad"})
                /\ UNCHANGED pending
           ELSE /\ pending' = [pending EXCEPT ![c] = [op |-> "navigate",
                                                      context |-> g.context]]
                /\ UNCHANGED last
        /\ UNCHANGED <<users, nextId, session, seedPc, variant, signedUp>>

\* The loader of that navigation, and what is rendered.
NavigateFinish(c, storeOk) ==
    LET n == NavigateLoad(users, nextId, session[c], pending[c].context, storeOk)
    IN  /\ ~Idle(c)
        /\ pending[c].op = "navigate"
        /\ last' = Request("navigate", c, EmptyObject, n.result, n.queries, n.ran)
        /\ pending' = [pending EXCEPT ![c] = Null]
        /\ UNCHANGED <<users, nextId, session, seedPc, variant, signedUp>>

NextConc ==
    \/ \E c \in Clients, i \in SignupInputs : SignupLookup(c, i)
    \/ \E c \in Clients, h \in BOOLEAN : SignupCreate(c, h)
    \/ \E c \in Clients : NavigateBegin(c)
    \/ \E c \in Clients, ok \in BOOLEAN : NavigateFinish(c, ok)
    \/ \E c \in Clients, i \in LoginInputs, h \in BOOLEAN : loginFn(c, i, h)
    \/ \E c \in Clients, i \in LoginInputs, h \in BOOLEAN : loginFnLegacy(c, i, h)
    \/ \E c \in Clients : Logout(c)

SpecConc == Init /\ [][NextConc]_vars

----------------------------------------------------------------------------
(* Vocabulary of the properties: all of it reads the last request *)

IsCall(op) == last.op = op

Caller == last.client

SessionUnchanged == session[Caller] = last.before

UsersUnchanged == users = last.usersBefore

HashFailed == last.result = Throw("pbkdf2 failed")

Returned(key, value) ==
    /\ last.result.kind = "return"
    /\ Has(last.result.value, key)
    /\ last.result.value[key] = value

SessionFields == {"email", "role", "id"}

LoggedInResult == Return([error |-> FALSE, userNotFound |-> FALSE, message |-> "Logged in"])

\* The credentials of the last request are those of a stored user.
CorrectCredentials ==
    /\ last.input.email \in DOMAIN last.usersBefore
    /\ last.usersBefore[last.input.email].password = hashPassword(last.input.password)

----------------------------------------------------------------------------
(* C1: a loginFn call with the email of a stored user and the password     *)
(* whose digest is stored leaves the caller's session holding exactly      *)
(* {email, role, id} of that user, whatever the session held before, and   *)
(* reports success: {error: false} from the handler behind the validator,  *)
(* a redirect to /home from the older handler.                             *)
C1_LoginWritesSession ==
    (IsCall("loginFn") /\ CorrectCredentials /\ ~HashFailed) =>
        /\ session[Caller] = Select(users[last.input.email], SessionFields)
        /\ variant = "validator" => last.result = LoggedInResult
        /\ variant = "legacy" => last.result = Redirect("/home")

\* C1 as stated: success is always reported as {error: false}.
C1_AsStated ==
    (IsCall("loginFn") /\ CorrectCredentials /\ ~HashFailed) =>
        /\ session[Caller] = Select(users[last.input.email], SessionFields)
        /\ Returned("error", FALSE)

\* A login over another user's session succeeded.
C1_Witness ==
    /\ IsCall("loginFn") /\ CorrectCredentials /\ ~HashFailed
    /\ Truthy(last.before, "email")
    /\ last.before.email # last.input.email
    /\ session[Caller].email = last.input.email

----------------------------------------------------------------------------
(* C2: a loginFn call with an email that is not in the User Store writes   *)
(* no session and changes no user; it returns {error: true, userNotFound:  *)
(* true}, except that behind the validator an input that fails the signin  *)
(* schema is rejected with the schema's error before any lookup.           *)
C2_Rejected ==
    variant = "validator" /\ signinSchema(last.input) # {}

----------------------------------------------------------------------------
(* C3: a loginFn call with a stored email and a well-formed password whose *)
(* digest differs from the stored one returns {error: true, message:       *)
(* "Incorrect password"}, not tagged userNotFound: true, and writes no     *)
(* session.                                                                *)
C3_WrongPassword ==
    /\ IsCall("loginFn")
    /\ signinSchema(last.input) = {}
    /\ last.input.email \in DOMAIN last.usersBefore
    /\ ~CorrectCredentials
    /\ ~HashFailed

C3_IncorrectPasswordIsDistinct ==
    C3_WrongPassword =>
        /\ Returned("error", TRUE)
        /\ Returned("message", "Incorrect password")
        /\ ~Returned("userNotFound", TRUE)
        /\ SessionUnchanged

----------------------------------------------------------------------------
(* C4: a signupFn call with an email already in the User Store has no side *)
(* effects, on the User Store or on the caller's session; it returns       *)
(* {error: true, userExists: true}, except that behind the validator an    *)
(* input that fails the signup schema is rejected with the schema's error  *)
(* before any lookup.                                                      *)
C4_Rejected ==
    variant = "validator" /\ signupSchema(last.input) # {}

----------------------------------------------------------------------------
(* C5: a signupFn call with valid input and an email not in the User Store *)
(* creates exactly one user, with the email and names given, the digest of *)
(* the password (never the plaintext) and role "user", under an id no      *)
(* other user has; it leaves every other user as it was and the caller's   *)
(* session equal to {email, role, id} of the new user.                     *)
C5_ValidNewSignup ==
    /\ IsCall("signupFn")
    /\ signupSchema(last.input) = {}
    /\ last.input.email \notin DOMAIN last.usersBefore
    /\ ~HashFailed

C5_SignupCreatesUser ==
    C5_ValidNewSignup =>
        /\ DOMAIN users = DOMAIN last.usersBefore \cup {last.input.email}
        /\ \A e \in DOMAIN last.usersBefore : users[e] = last.usersBefore[e]
        /\ LET user == users[last.input.email]
           IN  /\ user.email = last.input.email
               /\ user.first_name = last.input.first_name
               /\ user.last_name = last.input.last_name
               /\ user.password = hashPassword(last.input.password)
               /\ user.password # last.input.password
               /\ user.role = "user"
               /\ \A e \in DOMAIN last.usersBefore : users[e].id # user.id
               /\ session[Caller] =
                    [email |-> user.email, role |-> "user", id |-> user.id]

\* A second user signed up, from a client that held the first one's session.
C5_Witness ==
    /\ C5_ValidNewSignup
    /\ DOMAIN last.usersBefore # {}
    /\ Truthy(last.before, "email")
    /\ Cardinality(DOMAIN users) = 2

----------------------------------------------------------------------------
(* C6: signupFn validates before anything else: whatever the User Store    *)
(* holds, input that fails the schema gets the returned result {error:     *)
(* true, message: "Invalid input", issues}, nothing is thrown, no user is  *)
(* created and no session written; input that fits the schema is never     *)
(* answered with "Invalid input".                                          *)
C6_ValidationFirst ==
    IsCall("signupFn") =>
        /\ signupSchema(last.input) # {} =>
             /\ Returned("error", TRUE)
             /\ Returned("message", "Invalid input")
             /\ Returned("issues", signupSchema(last.input))
             /\ UsersUnchanged
             /\ SessionUnchanged
        /\ signupSchema(last.input) = {} =>
             /\ ~Returned("message", "Invalid input")
             /\ last.result.kind = "throw" => HashFailed

----------------------------------------------------------------------------
(* C7: when the client has no session, a navigation into the '_authed'     *)
(* subtree ends in a redirect to '/', and neither the protected route's    *)
(* loader nor its component runs.                                          *)
C7_NoSessionRedirects ==
    (IsCall("navigate") /\ ~Truthy(last.before, "email")) =>
        /\ last.result = Redirect("/")
        /\ "_authed.beforeLoad" \in last.ran
        /\ last.ran \cap {"home.loader", "AuthHomePage", "_authed.errorComponent"} = {}
        /\ last.queries = 0

\* A client without a session navigated to /home while users exist.
C7_Witness ==
    /\ IsCall("navigate")
    /\ ~Truthy(last.before, "email")
    /\ last.result.kind = "redirect"
    /\ DOMAIN users # {}

----------------------------------------------------------------------------
(* C8: with no email in the caller's session, getCurrentUser fails with    *)
(* 'Not authenticated' without reading the User Store and fetchSessionUser *)
(* returns null; with an email in it, fetchSessionUser returns the         *)
(* session's {email, role, id} as they are.                                *)
C8_Accessors ==
    /\ (IsCall("getCurrentUser") /\ ~Truthy(last.before, "email")) =>
         last.result = Throw("Not authenticated") /\ last.queries = 0
    /\ (IsCall("fetchSessionUser") /\ ~Truthy(last.before, "email")) =>
         last.result = Return(Null)
    /\ (IsCall("fetchSessionUser") /\ Truthy(last.before, "email")) =>
         /\ last.result = Return(last.before)
         /\ DOMAIN last.result.value = SessionFields
    /\ IsCall("getCurrentUser") \/ IsCall("fetchSessionUser") =>
         SessionUnchanged /\ UsersUnchanged

\* getCurrentUser failed for a client without a session while users exist.
C8_Witness ==
    /\ IsCall("getCurrentUser")
    /\ last.before = EmptyObject
    /\ last.result.kind = "throw"
    /\ DOMAIN users # {}

----------------------------------------------------------------------------
(* C9: with an email in the caller's session, getCurrentUser returns the   *)
(* row now stored under that email as exactly {id, email, role,            *)
(* first_name, last_name}, or null when no row is stored under it; the     *)
(* home view is rendered with that row as userData in the first case and   *)
(* with the loader data {status: 401, redirect: '/'} in the second.        *)
ProfileFields == {"id", "email", "role", "first_name", "last_name"}

C9_CurrentUser ==
    /\ (IsCall("getCurrentUser") /\ Truthy(last.before, "email")) =>
         IF last.before.email \in DOMAIN users
         THEN /\ last.result = Return(Select(users[last.before.email], ProfileFields))
              /\ DOMAIN last.result.value = ProfileFields
         ELSE last.result = Return(Null)
    /\ (IsCall("navigate") /\ Truthy(last.before, "email")) =>
         /\ last.result.kind = "view"
         /\ last.result.component = "AuthHomePage"
         /\ last.result.loaderData =
              IF last.before.email \in DOMAIN users
              THEN [userData |-> Select(users[last.before.email], ProfileFields)]
              ELSE [status |-> 401, redirect |-> "/"]

\* C9 as stated: getCurrentUser never returns null.
C9_AsStated ==
    (IsCall("getCurrentUser") /\ Truthy(last.before, "email")) =>
        /\ last.result.kind = "return"
        /\ last.result.value # Null
        /\ last.result.value = Select(users[last.before.email], ProfileFields)

\* getCurrentUser returned a row whose role and id are no longer those of
\* the caller's session.
C9_Witness ==
    /\ IsCall("getCurrentUser")
    /\ Truthy(last.before, "email")
    /\ last.result.kind = "return"
    /\ last.result.value # Null
    /\ last.result.value.role # last.before.role
    /\ last.result.value.id # last.before.id

----------------------------------------------------------------------------
(* C10: once signupFn has created a user, and until the seed script        *)
(* deletes or re-provisions that user, every loginFn call with the same    *)
(* email and password succeeds and leaves the caller's session with that   *)
(* email and role "user".                                                  *)
LoginSucceeded ==
    \/ last.result = LoggedInResult
    \/ last.result = Redirect("/home")

C10_SignedUpCredentials ==
    /\ IsCall("loginFn")
    /\ last.input.email \in DOMAIN signedUp
    /\ signedUp[last.input.email].password = last.input.password
    /\ ~HashFailed

C10_SignupThenLogin ==
    C10_SignedUpCredentials =>
        /\ LoginSucceeded
        /\ session[Caller].email = last.input.email
        /\ session[Caller].role = "user"

\* A login with signed-up credentials from a client without a session, after
\* a second user has signed up.
C10_Witness ==
    /\ C10_SignedUpCredentials
    /\ last.before = EmptyObject
    /\ Cardinality(DOMAIN users) = 2
    /\ LoginSucceeded

----------------------------------------------------------------------------
(* C11: a client's session changes only in a step that answers that client *)
(* itself: a loginFn or signupFn call that succeeded, after which the      *)
(* session holds an email, or its logout, after which it holds nothing.    *)
(* Failed calls, fetchSessionUser, getCurrentUser, navigations, other      *)
(* clients' requests and the seed script's writes to the User table leave  *)
(* it as it was.                                                           *)
SuccessResults ==
    {LoggedInResult,
     Return([error |-> FALSE, message |-> "user created", issues |-> Null]),
     Redirect("/home"),
     Redirect("/")}

C11_SessionWrittenHere(c) ==
    /\ last'.client = c
    /\ \/ /\ last'.op \in {"loginFn", "signupFn"}
          /\ last'.result \in SuccessResults
          /\ Truthy(session'[c], "email")
       \/ /\ last'.op = "logout"
          /\ session'[c] = EmptyObject

C11_SessionLifecycle ==
    [][\A c \in Clients : session'[c] # session[c] => C11_SessionWrittenHere(c)]_vars

\* A session that has gone stale: the row under its email now has another
\* role and id, after the last request came from another client.
C11_Witness ==
    \E c \in Clients :
        /\ Truthy(session[c], "email")
        /\ session[c].email \in DOMAIN users
        /\ users[session[c].email].role # session[c].role
        /\ users[session[c].email].id # session[c].id
        /\ last.client # c
        /\ last.op \in {"loginFn", "signupFn"}

----------------------------------------------------------------------------
(* C14: in every reachable state, a loginFn or signupFn call that gets as  *)
(* far as the digest computation and whose digest computation fails ends   *)
(* in a thrown error, not in a returned result or a redirect, and leaves   *)
(* the User Store and the caller's session as they were.                   *)
DeployedLogin(c, input, hashOk) ==
    IF variant = "validator"
    THEN loginServerFn(users, nextId, session[c], input, hashOk)
    ELSE loginServerFnLegacy(users, nextId, session[c], input, hashOk)

DeployedSignup(c, input, hashOk) ==
    IF variant = "validator"
    THEN signupServerFn(users, nextId, session[c], input, hashOk)
    ELSE signupServerFnLegacy(users, nextId, session[c], input, hashOk)

\* The call gets past the validator and the lookup to hashPassword.
LoginHashes(input) ==
    /\ variant = "validator" => signinSchema(input) = {}
    /\ input.email \in DOMAIN users

SignupHashes(input) ==
    /\ signupSchema(input) = {}
    /\ input.email \notin DOMAIN users

C14_NothingWritten(c, o) ==
    /\ o.result.kind = "throw"
    /\ o.users = users
    /\ o.nextId = nextId
    /\ o.data = session[c]

C14_HashFailurePropagates ==
    \A c \in Clients :
        /\ \A i \in LoginInputs :
             LoginHashes(i) => C14_NothingWritten(c, DeployedLogin(c, i, FALSE))
        /\ \A i \in SignupInputs :
             SignupHashes(i) => C14_NothingWritten(c, DeployedSignup(c, i, FALSE))

\* The digest computation of a signupFn call failed, for a client that
\* holds a session, while another user is stored.
C14_Witness ==
    /\ IsCall("signupFn")
    /\ HashFailed
    /\ Truthy(last.before, "email")
    /\ SessionUnchanged
    /\ UsersUnchanged
    /\ DOMAIN users # {}

----------------------------------------------------------------------------
(* C12: in every reachable state of the interleaved runs, no two rows      *)
(* share an email, and a signupFn call with valid input whose digest was   *)
(* computed, made for an email that has a row by the time the call tries   *)
(* to create it, has answered {error: true, userExists: true} and has not  *)
(* written the session.                                                    *)
UserExistsResult ==
    Return([error |-> TRUE, userExists |-> TRUE, message |-> "User already exists"])

EmailUnique ==
    /\ \A e \in DOMAIN users : users[e].email = e
    /\ \A e, f \in DOMAIN users : users[e].id = users[f].id => e = f

C12_LostRace ==
    /\ IsCall("signupFn")
    /\ signupSchema(last.input) = {}
    /\ ~HashFailed
    /\ last.input.email \in DOMAIN last.usersBefore

C12_ConcurrentSignup ==
    /\ EmailUnique
    /\ C12_LostRace => /\ last.result = UserExistsResult
                       /\ SessionUnchanged
                       /\ UsersUnchanged

----------------------------------------------------------------------------
(* C13: in every reachable state of the interleaved runs, a navigation to  *)
(* /home whose loader failed shows the login form exactly when the failure *)
(* was 'Not authenticated' and the generic error boundary otherwise, and a *)
(* loginFn or signupFn call that ended in an expected outcome (invalid     *)
(* input, user not found, incorrect password, user already exists) has     *)
(* returned its response, not thrown it.                                   *)
LoaderFailed ==
    /\ IsCall("navigate")
    /\ "_authed.errorComponent" \in last.ran

\* Navigation writes no session, so the loader saw last.before.
LoaderNotAuthenticated == ~Truthy(last.before, "email")

C13_LoaderErrorRouting ==
    /\ LoaderFailed /\ LoaderNotAuthenticated => last.result.component = "Login"
    /\ LoaderFailed /\ ~LoaderNotAuthenticated =>
           last.result.component = "DefaultCatchBoundary"
    /\ IsCall("navigate") /\ last.result.kind = "view"
                          /\ last.result.component = "Login" =>
           LoaderFailed /\ LoaderNotAuthenticated

C13_ExpectedOutcome ==
    /\ ~HashFailed
    /\ \/ /\ IsCall("loginFn")
          /\ \/ signinSchema(last.input) # {}
             \/ last.input.email \notin DOMAIN last.usersBefore
             \/ last.usersBefore[last.input.email].password
                    # hashPassword(last.input.password)
       \/ /\ IsCall("signupFn")
          /\ \/ signupSchema(last.input) # {}
             \/ last.input.email \in DOMAIN last.usersBefore

C13_ErrorPolicy ==
    /\ C13_LoaderErrorRouting
    /\ C13_ExpectedOutcome => last.result.kind = "return"

====
